---- MODULE Spec2Model ----
(***************************************************************************)
(* Model of the Health Tracker AI backend (backend/main.py): the three     *)
(* FastAPI routes, the ask_gemini helper and the best-effort JSON decode   *)
(* of the model's reply.                                                   *)
(*                                                                         *)
(* A Python str is a sequence of lexemes (each a TLA+ string): a filename  *)
(* or content type is a sequence of characters, a model reply a sequence   *)
(* of JSON tokens, whitespace and free text, a fixed message one lexeme.   *)
(* A Python bytes object is a sequence of integers 0..255.  An Optional    *)
(* str is a record [isNone, s].                                            *)
(***************************************************************************)
EXTENDS Integers, Sequences, FiniteSets, TLC

\* ------------------------------------------------------------------ bounds
MaxPad == 1
MaxBodyLen == 2
MaxSymLen == 2

\* ------------------------------------------------------- string primitives
Whitespace == {" ", "\n"}

UpperToLower ==
  [c \in {"A", "D", "E", "F", "G", "J", "N", "P", "T", "X"} |->
     CASE c = "A" -> "a" [] c = "D" -> "d" [] c = "E" -> "e" [] c = "F" -> "f"
       [] c = "G" -> "g" [] c = "J" -> "j" [] c = "N" -> "n" [] c = "P" -> "p"
       [] c = "T" -> "t" [] c = "X" -> "x"]

lower(s) ==
  [i \in DOMAIN s |-> IF s[i] \in DOMAIN UpperToLower THEN UpperToLower[s[i]] ELSE s[i]]

startswith(s, prefix) ==
  /\ Len(s) >= Len(prefix)
  /\ SubSeq(s, 1, Len(prefix)) = prefix

endswith(s, suffix) ==
  /\ Len(s) >= Len(suffix)
  /\ SubSeq(s, Len(s) - Len(suffix) + 1, Len(s)) = suffix

strip(s) ==
  LET keep == {i \in DOMAIN s : s[i] \notin Whitespace}
  IN  IF keep = {} THEN <<>>
      ELSE SubSeq(s, CHOOSE i \in keep : \A j \in keep : i <= j,
                     CHOOSE i \in keep : \A j \in keep : j <= i)

\* bytes.decode("utf-8", errors="replace"): ASCII bytes map to their
\* character, a byte that starts no valid sequence becomes U+FFFD.
decode(body) ==
  [i \in DOMAIN body |->
     CASE body[i] = 32 -> " "
       [] body[i] = 10 -> "\n"
       [] body[i] = 97 -> "a"
       [] OTHER -> "U+FFFD"]

SeqsUpTo(S, n) == UNION {[1..k -> S] : k \in 0..n}

Some(s) == [isNone |-> FALSE, s |-> s]
NoneStr == [isNone |-> TRUE, s |-> <<>>]

\* --------------------------------------------------------- fixed strings
GeminiError == <<"[", "Gemini error", "]", " ">>
NoResponse == <<"[", "No response", "]">>
HomeMessage == <<"FastAPI + Gemini backend is running!">>
EmptySymptomMessage == <<"Please provide a non-empty symptom description.">>
OcrFailedError == <<"OCR failed on the uploaded image.">>
OcrUnavailableError == <<"OCR is not available. Install Pillow and pytesseract.">>
PdfError == <<"PDF parsing not enabled. Please convert PDF to text or image.">>
UnsupportedError == <<"Unsupported file type. Send text or image files.">>
NoTextError == <<"No text could be extracted from the file.">>

TextPrefix == <<"t", "e", "x", "t", "/">>
ImagePrefix == <<"i", "m", "a", "g", "e", "/">>
DotTxt == <<".", "t", "x", "t">>
DotPng == <<".", "p", "n", "g">>
DotJpg == <<".", "j", "p", "g">>
DotJpeg == <<".", "j", "p", "e", "g">>
DotPdf == <<".", "p", "d", "f">>

\* ------------------------------------------------- the external model call
\* model.generate_content(full_prompt) followed by response.text: either a
\* reply text (possibly empty) or an exception whose str() is `text`.
Pad(n) == [i \in 1..n |-> " "]

QMetrics == "\"metrics\""
QDiagnosis == "\"diagnosis\""
QName == "\"name\""
QNormal == "\"normal\""

ReplyCores ==
  { <<>>,
    <<"I cannot parse this.">>,
    <<"{", QMetrics, ":", "[", "{", QName, ":", "1", "}", "]", ",",
      QDiagnosis, ":", QNormal, "}">>,
    <<"{", "}">>,
    <<"{", QMetrics, ":", "[", "]", "}">>,
    <<"{", QDiagnosis, ":", QNormal, "}">>,
    <<"{", QMetrics, ":", QNormal, ",", QDiagnosis, ":", "1", "}">>,
    <<"{", QMetrics, ":", "null", "}">>,
    <<"{", QMetrics, ":", "1", ",", QMetrics, ":", "[", "]", "}">>,
    <<"{", " ", QMetrics, " ", ":", "\n", "[", " ", "]", " ", "}">>,
    <<"[", "1", "]">>,
    <<QNormal>>,
    <<"null">>,
    <<"1">>,
    <<"{", QMetrics, ":", "[", "1", ",", "]", "}">>,
    <<"{", "}", "x">>,
    <<"{", QMetrics, ":", "[">>,
    <<"{", "1", ":", "1", "}">> }

ReplyTexts ==
  {Pad(l) \o core \o Pad(r) : l \in 0..MaxPad, r \in 0..MaxPad, core \in ReplyCores}

ExceptionMessages ==
  { <<>>,
    <<"API key not valid">>,
    <<"{", QMetrics, ":", "[", "1", "]", "}">> }

ModelOutcomes ==
  {[kind |-> "text", text |-> t] : t \in ReplyTexts}
    \cup {[kind |-> "raise", text |-> m] : m \in ExceptionMessages}

NoOutcome == [kind |-> "none", text |-> <<>>]
NoAnswer == [raised |-> FALSE, value |-> <<>>]

SystemPrompt == <<"You are a helpful, cautious medical assistant. ...">>

\* ask_gemini(prompt): the return value, or the exception that leaves it.
ask_gemini_no_except(prompt, out) ==
  IF out.kind = "raise"
    THEN [raised |-> TRUE, value |-> out.text]
    ELSE [raised |-> FALSE,
          value |-> IF out.text # <<>> THEN strip(out.text) ELSE NoResponse]

ask_gemini_no_marker(prompt, out) ==
  IF out.kind = "raise"
    THEN [raised |-> FALSE, value |-> out.text]
    ELSE [raised |-> FALSE,
          value |-> IF out.text # <<>> THEN strip(out.text) ELSE NoResponse]

ask_gemini_no_fallback(prompt, out) ==
  IF out.kind = "raise"
    THEN [raised |-> FALSE, value |-> GeminiError \o out.text]
    ELSE [raised |-> FALSE, value |-> strip(out.text)]

ask_gemini(prompt, out) ==
  LET full_prompt == SystemPrompt \o <<"\n\nUser input:\n">> \o prompt
  IN  IF out.kind = "raise"
        THEN [raised |-> FALSE, value |-> GeminiError \o out.text]
        ELSE [raised |-> FALSE,
              value |-> IF out.text # <<>> THEN strip(out.text) ELSE NoResponse]

\* ------------------------------------------------------------ GET /
home == [raised |-> FALSE, body |-> [message |-> HomeMessage]]

\* ------------------------------------------------------------ POST /analyze
Symptoms == SeqsUpTo({" ", "a"}, MaxSymLen)

Handled(response, n, out, answer, prompt, decoded) ==
  [response |-> response, calls |-> n, outcome |-> out, answer |-> answer,
   prompt |-> prompt, ocr_attempted |-> decoded]

Propagate(answer) == [raised |-> TRUE, body |-> [exception |-> answer.value]]

analyze_text_no_strip(symptom0, out) ==
  LET prompt == <<"User symptom description:\n\n">> \o symptom0 \o <<"\n\nPlease provide: ...">>
      answer == ask_gemini(prompt, out)
  IN  IF symptom0 = <<>>
        THEN Handled([raised |-> FALSE, body |-> [result |-> EmptySymptomMessage]],
                     0, NoOutcome, NoAnswer, <<>>, FALSE)
        ELSE Handled(IF answer.raised THEN Propagate(answer)
                     ELSE [raised |-> FALSE, body |-> [result |-> answer.value]],
                     1, out, answer, prompt, FALSE)

analyze_text(symptom0, out) ==
  LET symptom == strip(symptom0)
      prompt == <<"User symptom description:\n\n">> \o symptom \o <<"\n\nPlease provide: ...">>
      answer == ask_gemini(prompt, out)
  IN  IF symptom = <<>>
        THEN Handled([raised |-> FALSE, body |-> [result |-> EmptySymptomMessage]],
                     0, NoOutcome, NoAnswer, <<>>, FALSE)
        ELSE Handled(IF answer.raised THEN Propagate(answer)
                     ELSE [raised |-> FALSE, body |-> [result |-> answer.value]],
                     1, out, answer, prompt, FALSE)

\* ------------------------------------------------------------ json.loads
\* A decoded JSON value: t is its Python type; an object keeps its members
\* in order in keys/items, an array its elements in items, a string its
\* text; a number or null is told by t and text alone.
JsonValue(t, keys, items, text) ==
  [t |-> t, keys |-> keys, items |-> items, text |-> text]

StringLiterals == {QMetrics, QDiagnosis, QName, QNormal}
NumberLiterals == {"1"}

Unquote(tok) ==
  CASE tok = QMetrics -> "metrics"
    [] tok = QDiagnosis -> "diagnosis"
    [] tok = QName -> "name"
    [] tok = QNormal -> "normal"

PyStr(text) == JsonValue("str", <<>>, <<>>, text)
PyList(items) == JsonValue("list", <<>>, items, <<>>)
PyDict(keys, items) == JsonValue("dict", keys, items, <<>>)
PyInt(tok) == JsonValue("int", <<>>, <<>>, <<tok>>)
PyNone == JsonValue("NoneType", <<>>, <<>>, <<>>)

JsonDecodeError == [ok |-> FALSE, val |-> PyNone, next |-> 0]
Decoded(val, next) == [ok |-> TRUE, val |-> val, next |-> next]

\* json.decoder's whitespace match: the first index at or after i that
\* holds no whitespace (Len(s) + 1 when there is none).
SkipWhitespace(s, i) ==
  LET stops == {j \in i..Len(s) : s[j] \notin Whitespace}
  IN  IF stops = {} THEN Len(s) + 1
      ELSE CHOOSE j \in stops : \A k \in stops : j <= k

RECURSIVE scan_once(_, _)
RECURSIVE JSONObjectMembers(_, _, _, _)
RECURSIVE JSONArrayElements(_, _, _)

\* the members of an object from index i (a key is expected there)
JSONObjectMembers(s, i, keys, items) ==
  IF i > Len(s) \/ s[i] \notin StringLiterals THEN JsonDecodeError
  ELSE
    LET colon == SkipWhitespace(s, i + 1)
    IN  IF colon > Len(s) \/ s[colon] # ":" THEN JsonDecodeError
        ELSE
          LET v == scan_once(s, SkipWhitespace(s, colon + 1))
              sep == SkipWhitespace(s, v.next)
              keys2 == Append(keys, Unquote(s[i]))
              items2 == Append(items, v.val)
          IN  IF ~v.ok \/ sep > Len(s) THEN JsonDecodeError
              ELSE IF s[sep] = "}" THEN Decoded(PyDict(keys2, items2), sep + 1)
              ELSE IF s[sep] = ","
                THEN JSONObjectMembers(s, SkipWhitespace(s, sep + 1), keys2, items2)
              ELSE JsonDecodeError

\* the elements of an array from index i (a value is expected there)
JSONArrayElements(s, i, items) ==
  LET v == scan_once(s, i)
      sep == SkipWhitespace(s, v.next)
      items2 == Append(items, v.val)
  IN  IF ~v.ok \/ sep > Len(s) THEN JsonDecodeError
      ELSE IF s[sep] = "]" THEN Decoded(PyList(items2), sep + 1)
      ELSE IF s[sep] = ","
        THEN JSONArrayElements(s, SkipWhitespace(s, sep + 1), items2)
      ELSE JsonDecodeError

\* one JSON value starting exactly at index i
scan_once(s, i) ==
  IF i > Len(s) THEN JsonDecodeError
  ELSE IF s[i] \in StringLiterals THEN Decoded(PyStr(<<Unquote(s[i])>>), i + 1)
  ELSE IF s[i] \in NumberLiterals THEN Decoded(PyInt(s[i]), i + 1)
  ELSE IF s[i] = "null" THEN Decoded(PyNone, i + 1)
  ELSE IF s[i] = "{"
    THEN LET j == SkipWhitespace(s, i + 1)
         IN  IF j <= Len(s) /\ s[j] = "}" THEN Decoded(PyDict(<<>>, <<>>), j + 1)
             ELSE JSONObjectMembers(s, j, <<>>, <<>>)
  ELSE IF s[i] = "["
    THEN LET j == SkipWhitespace(s, i + 1)
         IN  IF j <= Len(s) /\ s[j] = "]" THEN Decoded(PyList(<<>>), j + 1)
             ELSE JSONArrayElements(s, j, <<>>)
  ELSE JsonDecodeError

\* json.loads(s): one value, then nothing but whitespace
json_loads(s) ==
  LET v == scan_once(s, SkipWhitespace(s, 1))
  IN  IF ~v.ok THEN JsonDecodeError
      ELSE IF SkipWhitespace(s, v.next) <= Len(s) THEN JsonDecodeError
      ELSE v

HasKey(d, key) == \E i \in DOMAIN d.keys : d.keys[i] = key

\* dict.get(key, default): the value of the last member named key
dict_get(d, key, default) ==
  IF HasKey(d, key)
    THEN d.items[CHOOSE i \in DOMAIN d.keys :
                   /\ d.keys[i] = key
                   /\ \A j \in DOMAIN d.keys : d.keys[j] = key => j <= i]
    ELSE default

\* lines 153-162: the response built from ask_gemini's return value
shape_response_null_default(ai_response) ==
  LET parsed == json_loads(ai_response)
  IN  IF parsed.ok /\ parsed.val.t = "dict"
        THEN [metrics |-> dict_get(parsed.val, "metrics", PyNone),
              diagnosis |-> dict_get(parsed.val, "diagnosis", PyStr(<<>>))]
        ELSE [metrics |-> PyList(<<>>), diagnosis |-> PyStr(ai_response)]

shape_response_error_fallback(ai_response) ==
  LET parsed == json_loads(ai_response)
  IN  IF parsed.ok /\ parsed.val.t = "dict"
        THEN [metrics |-> dict_get(parsed.val, "metrics", PyList(<<>>)),
              diagnosis |-> dict_get(parsed.val, "diagnosis", PyStr(<<>>))]
        ELSE [error |-> ai_response]

shape_response(ai_response) ==
  LET parsed == json_loads(ai_response)
  IN  IF parsed.ok /\ parsed.val.t = "dict"
        THEN [metrics |-> dict_get(parsed.val, "metrics", PyList(<<>>)),
              diagnosis |-> dict_get(parsed.val, "diagnosis", PyStr(<<>>))]
        ELSE [metrics |-> PyList(<<>>), diagnosis |-> PyStr(ai_response)]

\* ------------------------------------------------------- POST /analyze-file
Filenames ==
  { NoneStr,
    Some(<<>>),
    Some(<<"a", ".", "t", "x", "t">>),
    Some(<<"a", ".", "T", "X", "T">>),
    Some(<<"a", ".", "p", "n", "g">>),
    Some(<<"a", ".", "j", "p", "g">>),
    Some(<<"a", ".", "J", "P", "E", "G">>),
    Some(<<"a", ".", "p", "d", "f">>),
    Some(<<"A", ".", "P", "D", "F">>),
    Some(<<"a", ".", "e", "x", "e">>),
    Some(<<"p", "d", "f">>) }

ContentTypes ==
  { NoneStr,
    Some(<<"t", "e", "x", "t", "/", "p", "l", "a", "i", "n">>),
    Some(<<"i", "m", "a", "g", "e", "/", "p", "n", "g">>),
    Some(<<"a", "p", "p", "l", "i", "c", "a", "t", "i", "o", "n", "/", "p", "d", "f">>),
    Some(<<"T", "E", "X", "T", "/", "p", "l", "a", "i", "n">>) }

Bytes == {32, 97, 255}
Bodies == SeqsUpTo(Bytes, MaxBodyLen)

\* Image.open + pytesseract.image_to_string: the recognised text, or any
\* exception of either call.
OcrOutcomes ==
  { [kind |-> "raise", text |-> <<>>],
    [kind |-> "text", text |-> <<>>],
    [kind |-> "text", text |-> <<" ", "\n">>],
    [kind |-> "text", text |-> <<"a", "\n">>] }

\* line 110: file.content_type or ""
content_type_or_empty(content_type) ==
  IF content_type.isNone THEN <<>> ELSE content_type.s

\* line 117, left operand
is_text_type(content_type) == startswith(content_type, TextPrefix)

\* line 117, right operand (filename is a str here)
is_txt_name(filename) == endswith(lower(filename), DotTxt)

\* line 121
is_image(content_type, filename) ==
  \/ startswith(content_type, ImagePrefix)
  \/ \E ext \in {DotPng, DotJpg, DotJpeg} : endswith(lower(filename), ext)

\* line 133
is_pdf_case_sensitive(filename) == endswith(filename, DotPdf)

is_pdf(filename) == endswith(lower(filename), DotPdf)

\* lines 117-137: which arm of the if/elif chain runs; evaluating
\* filename.lower() on a missing filename raises AttributeError.
file_branch(filename, content_type) ==
  IF is_text_type(content_type) THEN "text"
  ELSE IF filename.isNone THEN "AttributeError"
  ELSE IF is_txt_name(filename.s) THEN "text"
  ELSE IF is_image(content_type, filename.s) THEN "image"
  ELSE IF is_pdf(filename.s) THEN "pdf"
  ELSE "unsupported"

Extracted(text, decoded) ==
  [failed |-> FALSE, error |-> <<>>, text |-> text, attempted |-> decoded]
NotExtracted(error, decoded) ==
  [failed |-> TRUE, error |-> error, text |-> <<>>, attempted |-> decoded]

\* lines 122-130
ocr_extract_ignoring_flag(ocr_available, body, ocr_out) ==
  IF ocr_out.kind = "raise" THEN NotExtracted(OcrFailedError, TRUE)
  ELSE Extracted(ocr_out.text, TRUE)

ocr_extract(ocr_available, body, ocr_out) ==
  IF ocr_available
    THEN IF ocr_out.kind = "raise" THEN NotExtracted(OcrFailedError, TRUE)
         ELSE Extracted(ocr_out.text, TRUE)
    ELSE NotExtracted(OcrUnavailableError, FALSE)

\* lines 114-137
extract_text(ocr_available, branch, body, ocr_out) ==
  CASE branch = "text" -> Extracted(decode(body), FALSE)
    [] branch = "image" -> ocr_extract(ocr_available, body, ocr_out)
    [] branch = "pdf" -> NotExtracted(PdfError, FALSE)
    [] OTHER -> NotExtracted(UnsupportedError, FALSE)

ErrorResponse(error) == [raised |-> FALSE, body |-> [error |-> error]]

analyze_file(ocr_available, filename, content_type0, body, ocr_out, out) ==
  LET content_type == content_type_or_empty(content_type0)
      branch == file_branch(filename, content_type)
      ex == extract_text(ocr_available, branch, body, ocr_out)
      prompt == <<"Here is the extracted text from a lab report or prescription:\n\n">>
                  \o ex.text \o <<"\n\n1) Extract key health metrics ...">>
      answer == ask_gemini(prompt, out)
  IN  IF branch = "AttributeError"
        THEN Handled([raised |-> TRUE, body |-> [exception |-> <<"AttributeError">>]],
                     0, NoOutcome, NoAnswer, <<>>, FALSE)
      ELSE IF ex.failed
        THEN Handled(ErrorResponse(ex.error), 0, NoOutcome, NoAnswer, <<>>, ex.attempted)
      ELSE IF strip(ex.text) = <<>>
        THEN Handled(ErrorResponse(NoTextError), 0, NoOutcome, NoAnswer, <<>>, ex.attempted)
      ELSE Handled(IF answer.raised THEN Propagate(answer)
                   ELSE [raised |-> FALSE, body |-> shape_response(answer.value)],
                   1, out, answer, prompt, ex.attempted)

\* ------------------------------------------------------------ the service
VARIABLES OCR_AVAILABLE, pc, request, response, calls, outcome, answer,
          prompt, ocr_attempted

vars == <<OCR_AVAILABLE, pc, request, response, calls, outcome, answer,
          prompt, ocr_attempted>>

Request(route, symptom, filename, content_type, body) ==
  [route |-> route, symptom |-> symptom, filename |-> filename,
   content_type |-> content_type, body |-> body]

NoRequest == Request("", <<>>, NoneStr, NoneStr, <<>>)
NoResponseYet == [raised |-> FALSE, body |-> [message |-> <<>>]]

\* lines 12-17 and 37: the one-time OCR probe; the app waits for a request
Init ==
  /\ OCR_AVAILABLE \in BOOLEAN
  /\ pc = "idle"
  /\ request = NoRequest
  /\ response = NoResponseYet
  /\ calls = 0
  /\ outcome = NoOutcome
  /\ answer = NoAnswer
  /\ prompt = <<>>
  /\ ocr_attempted = FALSE

Finish(req, h) ==
  /\ pc' = "responded"
  /\ request' = req
  /\ response' = h.response
  /\ calls' = h.calls
  /\ outcome' = h.outcome
  /\ answer' = h.answer
  /\ prompt' = h.prompt
  /\ ocr_attempted' = h.ocr_attempted
  /\ UNCHANGED OCR_AVAILABLE

Home ==
  /\ pc = "idle"
  /\ Finish(Request("GET /", <<>>, NoneStr, NoneStr, <<>>),
            Handled(home, 0, NoOutcome, NoAnswer, <<>>, FALSE))

AnalyzeText ==
  /\ pc = "idle"
  /\ \E symptom \in Symptoms, out \in ModelOutcomes :
       Finish(Request("POST /analyze", symptom, NoneStr, NoneStr, <<>>),
              analyze_text(symptom, out))

AnalyzeFile ==
  /\ pc = "idle"
  /\ \E filename \in Filenames, content_type \in ContentTypes, body \in Bodies,
        ocr_out \in OcrOutcomes, out \in ModelOutcomes :
       Finish(Request("POST /analyze-file", <<>>, filename, content_type, body),
              analyze_file(OCR_AVAILABLE, filename, content_type, body, ocr_out, out))

\* the response is sent; the app waits for the next request
NextRequest ==
  /\ pc = "responded"
  /\ pc' = "idle"
  /\ request' = NoRequest
  /\ response' = NoResponseYet
  /\ calls' = 0
  /\ outcome' = NoOutcome
  /\ answer' = NoAnswer
  /\ prompt' = <<>>
  /\ ocr_attempted' = FALSE
  /\ UNCHANGED OCR_AVAILABLE

Next == Home \/ AnalyzeText \/ AnalyzeFile \/ NextRequest

Spec == Init /\ [][Next]_vars

TypeOK ==
  /\ OCR_AVAILABLE \in BOOLEAN
  /\ pc \in {"idle", "responded"}
  /\ calls \in 0..1

\* ------------------------------------------------------------ properties
Responded(route) == pc = "responded" /\ request.route = route

Returned == ~response.raised

IsError(error) ==
  /\ Returned
  /\ DOMAIN response.body = {"error"}
  /\ response.body.error = error

IsResult(text) ==
  /\ Returned
  /\ DOMAIN response.body = {"result"}
  /\ response.body.result = text

IsAnalysis(metrics, diagnosis) ==
  /\ Returned
  /\ DOMAIN response.body = {"metrics", "diagnosis"}
  /\ response.body.metrics = metrics
  /\ response.body.diagnosis = diagnosis

HasFilename == ~request.filename.isNone

DeclaredType == IF request.content_type.isNone THEN <<>> ELSE request.content_type.s

PdfNamed == HasFilename /\ endswith(lower(request.filename.s), DotPdf)

ImageNamed ==
  /\ HasFilename
  /\ \/ endswith(lower(request.filename.s), DotPng)
     \/ endswith(lower(request.filename.s), DotJpg)
     \/ endswith(lower(request.filename.s), DotJpeg)

TxtNamed == HasFilename /\ endswith(lower(request.filename.s), DotTxt)

TextTyped == startswith(DeclaredType, TextPrefix)
ImageTyped == startswith(DeclaredType, ImagePrefix)

\* C1 as stated: every upload named *.pdf (in any letter case), whatever its
\* declared content type and bytes, is answered by the PDF error and the
\* external model is not invoked.
C1_AsStated ==
  (Responded("POST /analyze-file") /\ PdfNamed)
    => (IsError(PdfError) /\ calls = 0)

\* C1 amended: every upload named *.pdf (in any letter case) whose declared
\* content type starts with neither "text/" nor "image/" is answered by the
\* PDF error, whatever its bytes, and the external model is not invoked.
C1_PdfRejected ==
  (Responded("POST /analyze-file") /\ PdfNamed /\ ~TextTyped /\ ~ImageTyped)
    => (IsError(PdfError) /\ calls = 0)

C1_Witness ==
  /\ Responded("POST /analyze-file")
  /\ request.filename = Some(<<"A", ".", "P", "D", "F">>)
  /\ ~request.content_type.isNone
  /\ ~TextTyped /\ ~ImageTyped
  /\ request.body # <<>>
  /\ IsError(PdfError)
  /\ calls = 0

\* C2 as stated, on the uploads that carry a filename: with the OCR flag
\* false, every upload named *.png, *.jpg or *.jpeg, or declared as an image
\* type, is answered by the OCR-unavailable error, with no decoding and no
\* model call.
C2_AsStated ==
  (/\ Responded("POST /analyze-file")
   /\ ~OCR_AVAILABLE
   /\ HasFilename
   /\ (ImageNamed \/ ImageTyped))
    => (IsError(OcrUnavailableError) /\ ~ocr_attempted /\ calls = 0)

\* C2 amended: with the OCR flag false, every upload that carries a filename
\* not ending in .txt, whose declared content type does not start with
\* "text/", and that is named *.png, *.jpg or *.jpeg or declared as an image
\* type, is answered by the OCR-unavailable error, with no decoding and no
\* model call.
C2_OcrUnavailable ==
  (/\ Responded("POST /analyze-file")
   /\ ~OCR_AVAILABLE
   /\ HasFilename /\ ~TxtNamed /\ ~TextTyped
   /\ (ImageNamed \/ ImageTyped))
    => (IsError(OcrUnavailableError) /\ ~ocr_attempted /\ calls = 0)

C2_Witness ==
  /\ Responded("POST /analyze-file")
  /\ ~OCR_AVAILABLE
  /\ request.filename = Some(<<"a", ".", "j", "p", "g">>)
  /\ request.content_type.isNone
  /\ request.body # <<>>
  /\ IsError(OcrUnavailableError)
  /\ ~ocr_attempted
  /\ calls = 0

NonBlankSymptom == strip(request.symptom) # <<>>

\* C3 as stated: for a symptom that is non-empty after trimming, the result
\* is the external model's reply text when the call succeeds and a string
\* prefixed "[Gemini error]" when it raises, and nothing else.
C3_AsStated ==
  (Responded("POST /analyze") /\ NonBlankSymptom)
    => /\ Returned
       /\ DOMAIN response.body = {"result"}
       /\ outcome.kind = "text" => response.body.result = outcome.text
       /\ outcome.kind = "raise" => startswith(response.body.result, GeminiError)

\* C3 amended: for a symptom that is non-empty after trimming, the result is
\* the reply text with leading and trailing whitespace removed when the call
\* succeeds with a non-empty reply, "[No response]" when it succeeds with an
\* empty reply, and "[Gemini error] " followed by the exception's text when
\* it raises; no other value is possible.
C3_ResultOfAnalyze ==
  (Responded("POST /analyze") /\ NonBlankSymptom)
    => /\ outcome.kind \in {"text", "raise"}
       /\ (outcome.kind = "text" /\ outcome.text # <<>>)
            => IsResult(strip(outcome.text))
       /\ (outcome.kind = "text" /\ outcome.text = <<>>)
            => IsResult(NoResponse)
       /\ outcome.kind = "raise" => IsResult(GeminiError \o outcome.text)

C3_Witness ==
  /\ Responded("POST /analyze")
  /\ NonBlankSymptom
  /\ outcome.kind = "text"
  /\ outcome.text = <<>>
  /\ IsResult(NoResponse)

\* C4: an empty or whitespace-only symptom never invokes the external model
\* and is answered by exactly the fixed prompt-to-user message.
C4_EmptySymptom ==
  (Responded("POST /analyze") /\ ~NonBlankSymptom)
    => (calls = 0 /\ outcome = NoOutcome /\ IsResult(EmptySymptomMessage))

C4_Witness ==
  /\ Responded("POST /analyze")
  /\ request.symptom # <<>>
  /\ ~NonBlankSymptom
  /\ IsResult(EmptySymptomMessage)
  /\ calls = 0

\* The replies of the model that are JSON objects, each with the metrics and
\* diagnosis a reader of the JSON finds in it (hasMetrics, hasDiagnosis: the
\* key is present).
ObjectReplies ==
  { [reply |-> <<"{", QMetrics, ":", "[", "{", QName, ":", "1", "}", "]", ",",
                 QDiagnosis, ":", QNormal, "}">>,
     hasMetrics |-> TRUE, hasDiagnosis |-> TRUE,
     metrics |-> PyList(<<PyDict(<<"name">>, <<PyInt("1")>>)>>),
     diagnosis |-> PyStr(<<"normal">>)],
    [reply |-> <<"{", "}">>,
     hasMetrics |-> FALSE, hasDiagnosis |-> FALSE,
     metrics |-> PyNone, diagnosis |-> PyNone],
    [reply |-> <<"{", QMetrics, ":", "[", "]", "}">>,
     hasMetrics |-> TRUE, hasDiagnosis |-> FALSE,
     metrics |-> PyList(<<>>), diagnosis |-> PyNone],
    [reply |-> <<"{", QDiagnosis, ":", QNormal, "}">>,
     hasMetrics |-> FALSE, hasDiagnosis |-> TRUE,
     metrics |-> PyNone, diagnosis |-> PyStr(<<"normal">>)],
    [reply |-> <<"{", QMetrics, ":", QNormal, ",", QDiagnosis, ":", "1", "}">>,
     hasMetrics |-> TRUE, hasDiagnosis |-> TRUE,
     metrics |-> PyStr(<<"normal">>), diagnosis |-> PyInt("1")],
    [reply |-> <<"{", QMetrics, ":", "null", "}">>,
     hasMetrics |-> TRUE, hasDiagnosis |-> FALSE,
     metrics |-> PyNone, diagnosis |-> PyNone],
    [reply |-> <<"{", QMetrics, ":", "1", ",", QMetrics, ":", "[", "]", "}">>,
     hasMetrics |-> TRUE, hasDiagnosis |-> FALSE,
     metrics |-> PyList(<<>>), diagnosis |-> PyNone],
    [reply |-> <<"{", " ", QMetrics, " ", ":", "\n", "[", " ", "]", " ", "}">>,
     hasMetrics |-> TRUE, hasDiagnosis |-> FALSE,
     metrics |-> PyList(<<>>), diagnosis |-> PyNone] }

IsObjectReply(text) == \E o \in ObjectReplies : o.reply = text
ObjectReply(text) == CHOOSE o \in ObjectReplies : o.reply = text

FileErrors ==
  {UnsupportedError, OcrUnavailableError, OcrFailedError, PdfError, NoTextError}

\* C6 as stated: every response body of /analyze-file is {"error": string}
\* or {"metrics": array of objects, "diagnosis": string}, for every reply.
C6_AsStated ==
  (Responded("POST /analyze-file") /\ Returned)
    => \/ /\ DOMAIN response.body = {"error"}
          /\ response.body.error \in FileErrors
       \/ /\ DOMAIN response.body = {"metrics", "diagnosis"}
          /\ response.body.metrics.t = "list"
          /\ \A i \in DOMAIN response.body.metrics.items :
               response.body.metrics.items[i].t = "dict"
          /\ response.body.diagnosis.t = "str"

\* C6 amended: every response body of /analyze-file is {"error": one of the
\* five fixed strings} or has exactly the keys 'metrics' and 'diagnosis';
\* in the second shape 'metrics' is an array unless the reply is a JSON
\* object that itself carries a 'metrics' value of another type, and
\* 'diagnosis' is a string unless the reply is a JSON object that itself
\* carries a 'diagnosis' value of another type (values are passed through
\* unvalidated).
C6_ResponseShapes ==
  (Responded("POST /analyze-file") /\ Returned)
    => \/ /\ DOMAIN response.body = {"error"}
          /\ response.body.error \in FileErrors
          /\ calls = 0
       \/ /\ DOMAIN response.body = {"metrics", "diagnosis"}
          /\ calls = 1
          /\ \/ response.body.metrics.t = "list"
             \/ \E o \in ObjectReplies :
                  o.reply = answer.value /\ o.hasMetrics /\ o.metrics.t # "list"
          /\ \/ response.body.diagnosis.t = "str"
             \/ \E o \in ObjectReplies :
                  o.reply = answer.value /\ o.hasDiagnosis /\ o.diagnosis.t # "str"

C6_Witness ==
  /\ Responded("POST /analyze-file")
  /\ Returned
  /\ DOMAIN response.body = {"metrics", "diagnosis"}
  /\ answer.value = <<"{", QMetrics, ":", QNormal, ",", QDiagnosis, ":", "1", "}">>
  /\ response.body.metrics.t = "str"
  /\ response.body.diagnosis.t = "int"

\* C7: ask_gemini never raises; whatever the external call does it returns
\* a string, and when the call fails the string starts "[Gemini error] ".
C7_AskGeminiNeverRaises ==
  (pc = "responded" /\ calls = 1)
    => /\ ~answer.raised
       /\ DOMAIN answer.value = 1..Len(answer.value)
       /\ outcome.kind = "raise" => startswith(answer.value, GeminiError)

C7_Witness ==
  /\ pc = "responded"
  /\ calls = 1
  /\ outcome.kind = "raise"
  /\ outcome.text # <<>>
  /\ ~answer.raised
  /\ answer.value = GeminiError \o outcome.text

\* C8: no request ends in an unhandled exception; for every input the
\* handler completes and returns a response body.
C8_NoUnhandledException == pc = "responded" => Returned

\* C9: when the external call fails in /analyze-file after text was
\* extracted, the response is (metrics [], diagnosis the marker-prefixed
\* error string): no 'error' field, and the string is not decoded as JSON.
C9_UpstreamFailureShape ==
  (Responded("POST /analyze-file") /\ calls = 1 /\ outcome.kind = "raise")
    => IsAnalysis(PyList(<<>>), PyStr(GeminiError \o outcome.text))

C9_Witness ==
  /\ Responded("POST /analyze-file")
  /\ calls = 1
  /\ outcome.kind = "raise"
  /\ outcome.text = <<"{", QMetrics, ":", "[", "1", "]", "}">>
  /\ IsAnalysis(PyList(<<>>), PyStr(GeminiError \o outcome.text))

AnsweredWithoutModel ==
  \/ request.route = "GET /"
  \/ request.route = "POST /analyze" /\ IsResult(EmptySymptomMessage)
  \/ request.route = "POST /analyze-file" /\ Returned
       /\ DOMAIN response.body = {"error"}

\* C10: a request invokes the external model at most once; zero times when
\* answered by GET /, by the empty-symptom message or by an /analyze-file
\* 'error' response, and exactly once in every other case.
C10_CallsPerRequest ==
  pc = "responded"
    => /\ calls <= 1
       /\ AnsweredWithoutModel => calls = 0
       /\ ~AnsweredWithoutModel => calls = 1

====
